---- MODULE Spec2Model ----
(***************************************************************************)
(* Credential and session lifecycle of the ERP backend:                    *)
(*   controllers/handlers/auth_handlers/auth.go   (HTTP handlers)          *)
(*   controllers/handlers/auth_handlers/store.go  (DBUserStore/DBRoleStore)*)
(*   models/invoice.go                            (SQL schema, seed roles) *)
(*                                                                         *)
(* Every request is served by its own goroutine (net/http), so a handler   *)
(* that makes two round trips to the database (SignUp: lookup then INSERT, *)
(* SetNewPassword: lookup then UPDATE) is two steps that other requests    *)
(* may interleave with.  A handler that makes one lookup is one step.      *)
(*                                                                         *)
(* Go strings that the code inspects character-wise or hashes (passwords,  *)
(* bcrypt hashes, tokens) are tuples of symbols, "" being << >>.           *)
(***************************************************************************)
EXTENDS Integers, Sequences, FiniteSets, Bags, TLC

\* ------------------------------------------------------------------ bounds
\* number of requests that can be in flight at once
NumProcs == 2
\* number of distinct salts bcrypt may draw
NumSalts == 1

Salts == 1..NumSalts
\* the clock is read every TickHours hours, MaxTicks times
MaxTicks == 4
TickHours == 12
ClockTimes == { k * TickHours : k \in 0..MaxTicks }
\* a table gives out at most MaxIds ids
MaxIds == 2

\* ------------------------------------------------------------ input domains
\* a@x.com is exercised with every input; b@x.com is the other account, there
\* to show what a request for a@x.com does to the rest of the table
Emails == {"a@x.com", "b@x.com"}
\* "", and two different non-empty passwords (all within bcrypt's 72 bytes)
Passwords == {<< >>, <<"p">>, <<"q">>}
PasswordsSetFor(e) == IF e = "a@x.com" THEN Passwords ELSE {<<"q">>}
PasswordsTriedFor(e) == IF e = "a@x.com" THEN Passwords ELSE {<<"p">>, <<"q">>}
\* sign-up bodies: two resolvable roles, one role name that is not seeded
Profiles ==
  { [name |-> "Ann", role |-> "Admin",    department |-> "Sales"],
    [name |-> "Bob", role |-> "Employee", department |-> "HR"],
    [name |-> "Ann", role |-> "Intern",   department |-> "Sales"] }
ProfilesFor(e) ==
  IF e = "a@x.com" THEN Profiles ELSE { pr \in Profiles : pr.name = "Bob" }

\* ------------------------------------------------------------ HTTP statuses
StatusOK == 200
StatusCreated == 201
StatusNoContent == 204
StatusBadRequest == 400
StatusUnauthorized == 401
StatusNotFound == 404
StatusConflict == 409
StatusInternalServerError == 500

\* ----------------------------------------------------------------- errors
Nil == "nil"
ErrUserNotFound == "user not found"
ErrRoleNotFound == "role not found"
ErrUniqueViolation == "duplicate key value violates unique constraint"
ErrStorage == "storage error"
ErrMismatchedHashAndPassword == "hashedPassword is not the hash of the given password"
ErrHashTooShort == "hashedSecret too short to be a bcrypted password"

\* ------------------------------------------------------------ roles table
\* INSERT INTO roles ... (seeded once, never changed by the program)
Roles ==
  << [id |-> 1, role_name |-> "Admin",          permissions |-> "all_permissions"],
     [id |-> 2, role_name |-> "Employee",       permissions |-> "basic_permissions"],
     [id |-> 3, role_name |-> "Sales Group",    permissions |-> "sales_permissions"],
     [id |-> 4, role_name |-> "Purchase Group", permissions |-> "purchase_permissions"],
     [id |-> 5, role_name |-> "Accountant",     permissions |-> "finance_permissions"],
     [id |-> 6, role_name |-> "Corporate",      permissions |-> "corporate_permissions"] >>

NoRole == [id |-> 0, role_name |-> "", permissions |-> ""]

\* DBRoleStore.GetRoleByID
GetRoleByID(id) ==
  IF \E i \in 1..Len(Roles) : Roles[i].id = id
    THEN [err |-> Nil, role |-> Roles[CHOOSE i \in 1..Len(Roles) : Roles[i].id = id]]
    ELSE [err |-> ErrRoleNotFound, role |-> NoRole]

\* DBRoleStore.GetRoleByName
GetRoleByName(roleName) ==
  IF \E i \in 1..Len(Roles) : Roles[i].role_name = roleName
    THEN [err |-> Nil,
          role |-> Roles[CHOOSE i \in 1..Len(Roles) : Roles[i].role_name = roleName]]
    ELSE [err |-> ErrRoleNotFound, role |-> NoRole]

\* ------------------------------------------------------------------ bcrypt
BcryptPrefix == "$2a$10$"
SaltSym(s) == ToString(s)

\* the digest of password pw under salt symbol s (one-way: stands for the
\* 31 base64 characters bcrypt derives from the salt and the password)
BcryptDigest(s, pw) == <<"H(", s>> \o pw \o <<")">>

\* bcrypt.GenerateFromPassword(password, DefaultCost) with salt s drawn;
\* no error for passwords within bcrypt's length limit
BcryptGenerateFromPassword(pw, s) ==
  [err |-> Nil, hash |-> <<BcryptPrefix, SaltSym(s)>> \o BcryptDigest(SaltSym(s), pw)]

\* a comparison that checks the shape of the hash but not the digest
BcryptCompareShapeOnly(hash, pw) ==
  IF Len(hash) < 2 \/ hash[1] # BcryptPrefix THEN ErrHashTooShort ELSE Nil

\* bcrypt.CompareHashAndPassword: re-hash the password with the salt read
\* from the stored hash and compare
BcryptCompareHashAndPassword(hash, pw) ==
  IF Len(hash) < 2 \/ hash[1] # BcryptPrefix THEN ErrHashTooShort
  ELSE IF hash = <<hash[1], hash[2]>> \o BcryptDigest(hash[2], pw) THEN Nil
  ELSE ErrMismatchedHashAndPassword

\* ------------------------------------------------------------------ state
VARIABLES
  users,     \* the users table: rows in insertion order
  inflight,  \* the requests being served that have not answered yet: a bag of
             \* [pc, body], pc being the call the goroutine makes next
  last,      \* the response written last, with the table before that step
  now,       \* time.Now(), in hours since the server started
  gate,      \* what JWTAuth did with the request it served last
  leave,     \* the leave table: its rows and the last value of its id sequence
  attendance, \* the attendance table, likewise
  payments,  \* the payments table (the bills of accounts payable), likewise
  reply      \* the response written last by a leave, attendance or bill
             \* handler, with the table before its step

\* the tables and the reply of the leave, attendance and bill handlers
hrVars == <<leave, attendance, payments, reply>>
vars == <<users, inflight, last, now, gate, leave, attendance, payments, reply>>

\* --------------------------------------------------------------- the token
\* a string of the Authorization header that holds no space: segments is the
\* number of parts strings.Split(s, ".") gives; a string of three segments
\* is read as header.claims.signature, any other string only has its text
jwtSecret == "your-secret-key"
NoClaims == [email |-> "", role |-> "", exp |-> 0]
NoSignature == [key |-> "", alg |-> "", claims |-> NoClaims]
Word(text) ==
  [segments |-> 1, text |-> text, alg |-> "", claims |-> NoClaims,
   signature |-> NoSignature]
NoToken ==
  [segments |-> 0, text |-> "", alg |-> "", claims |-> NoClaims,
   signature |-> NoSignature]

\* the methods of type *jwt.SigningMethodHMAC
SigningMethodHMAC == {"HS256", "HS384", "HS512"}
\* token.SignedString(key): the signature binds the key to the header and
\* the claims that were signed
SignedString(alg, claims, key) ==
  [segments |-> 3, text |-> "", alg |-> alg, claims |-> claims,
   signature |-> [key |-> key, alg |-> alg, claims |-> claims]]

\* time.Hour * 24
TokenTTL == 24

\* a token that expires one hour after it is issued
GenerateJWTOneHour(email, roleName, t) ==
  [err |-> Nil,
   token |-> SignedString("HS256", [email |-> email, role |-> roleName, exp |-> t + 1],
                          jwtSecret)]

\* utils.GenerateJWT called when time.Now() is t: HS256 over the claims
\* email and exp = t + 24h (and the role name that Login passes)
GenerateJWTAt(email, roleName, t) ==
  [err |-> Nil,
   token |-> SignedString("HS256",
                          [email |-> email, role |-> roleName, exp |-> t + TokenTTL],
                          jwtSecret)]

\* utils.GenerateJWT(email, roleName)
GenerateJWT(email, roleName) == GenerateJWTAt(email, roleName, now)

ErrMalformed == "token contains an invalid number of segments"
ErrUndecodable == "illegal base64 data"
ErrUnexpectedSigningMethod == "unexpected signing method"
ErrTokenExpired == "Token is expired"
ErrSignatureInvalid == "signature is invalid"

\* jwt.Parse(tokenString, keyFunc) when time.Now() is t.  token is "nil" when
\* Parse returns a nil *Token (the string does not have three segments) and
\* "set" otherwise; Valid is token.Valid
JwtParse(tokenString, t) ==
  IF tokenString.segments # 3
    THEN [token |-> "nil", Valid |-> FALSE, claims |-> NoClaims, err |-> ErrMalformed]
  ELSE IF tokenString.alg = ""
    THEN [token |-> "set", Valid |-> FALSE, claims |-> NoClaims, err |-> ErrUndecodable]
  ELSE IF tokenString.alg \notin SigningMethodHMAC
    THEN [token |-> "set", Valid |-> FALSE, claims |-> tokenString.claims,
          err |-> ErrUnexpectedSigningMethod]
  ELSE IF t > tokenString.claims.exp
    THEN [token |-> "set", Valid |-> FALSE, claims |-> tokenString.claims,
          err |-> ErrTokenExpired]
  ELSE IF tokenString.signature
            # [key |-> jwtSecret, alg |-> tokenString.alg, claims |-> tokenString.claims]
    THEN [token |-> "set", Valid |-> FALSE, claims |-> tokenString.claims,
          err |-> ErrSignatureInvalid]
  ELSE [token |-> "set", Valid |-> TRUE, claims |-> tokenString.claims, err |-> Nil]

\* utils.ValidateJWT when time.Now() is t.  It reads token.Claims and
\* token.Valid without testing err: on a nil token this is a nil pointer
\* dereference, and the goroutine panics
ValidateJWTAt(tokenString, t) ==
  LET p == JwtParse(tokenString, t) IN
  IF p.token = "nil"
    THEN [panic |-> TRUE, err |-> p.err, claims |-> NoClaims]
  ELSE IF p.Valid
    THEN [panic |-> FALSE, err |-> Nil, claims |-> p.claims]
    ELSE [panic |-> FALSE, err |-> p.err, claims |-> NoClaims]

\* utils.ValidateJWT(tokenString)
ValidateJWT(tokenString) == ValidateJWTAt(tokenString, now)

\* ---------------------------------------------------------------- the gate
\* header is the Authorization header as strings.Split(authHeader, " ")
\* parts it: a tuple of words; the empty header is the empty tuple.
\* What JWTAuth did: the response it wrote (status 0: it wrote none), next:
\* it called next.ServeHTTP, panic: the goroutine panicked
GateDid(header, t, status, msg, next, panic) ==
  [op |-> "JWTAuth", header |-> header, at |-> t, status |-> status, msg |-> msg,
   next |-> next, panic |-> panic]
NoGate ==
  [op |-> "none", header |-> << >>, at |-> 0, status |-> 0, msg |-> "",
   next |-> FALSE, panic |-> FALSE]

\* middleware.JWTAuth(next) serving a request with this header at time t
JWTAuthHandler(header, t) ==
  IF header = << >>
    THEN GateDid(header, t, StatusUnauthorized, "Missing authorization token",
                 FALSE, FALSE)
  ELSE IF Len(header) # 2
    THEN GateDid(header, t, StatusUnauthorized, "Invalid authorization token format",
                 FALSE, FALSE)
  ELSE LET v == ValidateJWTAt(header[2], t) IN
    IF v.panic THEN GateDid(header, t, 0, "", FALSE, TRUE)
    ELSE IF v.err # Nil
      THEN GateDid(header, t, StatusUnauthorized, "Invalid token", FALSE, FALSE)
    ELSE GateDid(header, t, 0, "", TRUE, FALSE)

\* the tokens the server has issued by time t
IssuedTokens(t) ==
  { GenerateJWTAt("a@x.com", "Admin", t0).token : t0 \in { x \in ClockTimes : x <= t } }
\* the strings a client may send as a token at time t: issued tokens, a
\* token with a changed email claim under the old signature, tokens signed
\* with another key or another method, strings that are not tokens
TokenWords(t) ==
  LET c == [email |-> "a@x.com", role |-> "Admin", exp |-> t + TokenTTL] IN
  IssuedTokens(t)
    \cup { [tok EXCEPT !.claims.email = "b@x.com"] : tok \in IssuedTokens(0) }
    \cup { SignedString("HS256", c, "another-key"),
           SignedString("HS512", c, jwtSecret),
           SignedString("RS256", c, jwtSecret),
           SignedString("none", c, ""),
           [SignedString("", NoClaims, "") EXCEPT !.text = "a.b.c"],
           [Word("a.b") EXCEPT !.segments = 2],
           Word("invalidtoken"),
           Word("") }
\* the Authorization headers a client may send at time t
AuthorizationHeaders(t) ==
  {<< >>}
    \cup { <<w>> : w \in TokenWords(t) }
    \cup { <<Word(scheme), w>> : scheme \in {"Bearer", "Token"}, w \in TokenWords(t) }
    \cup { <<Word("Bearer"), Word(""), w>> : w \in IssuedTokens(t) }

\* ------------------------------------------------------------- users table
\* sql.NullString
NullString == [Valid |-> FALSE, String |-> << >>]
NotNull(str) == [Valid |-> TRUE, String |-> str]

\* rows of users whose email column equals email, in table order
RowsByEmail(u, email) == SelectSeq(u, LAMBDA row : row.email = email)

NoUser ==
  [Name |-> "", Email |-> "", Password |-> << >>, Role |-> NoRole,
   Department |-> "", NeedsNewPass |-> FALSE]

\* a lookup that keeps the needs_new_pass column as scanned instead of
\* deriving NeedsNewPass from the password column
GetUserByEmailColumnFlag(u, email, fault) ==
  LET rows == RowsByEmail(u, email) IN
  IF fault THEN [err |-> ErrStorage, user |-> NoUser]
  ELSE IF Len(rows) = 0 THEN [err |-> ErrUserNotFound, user |-> NoUser]
  ELSE LET row == rows[1]
           r == GetRoleByID(row.role_id)
       IN IF r.err # Nil THEN [err |-> r.err, user |-> NoUser]
          ELSE [err |-> Nil,
                user |-> [Name |-> row.name, Email |-> row.email,
                          Password |-> row.password.String,
                          Role |-> r.role,
                          Department |-> row.department,
                          NeedsNewPass |-> row.needs_new_pass]]

\* DBUserStore.GetUserByEmail; fault: the database call fails
GetUserByEmail(u, email, fault) ==
  LET rows == RowsByEmail(u, email) IN
  IF fault THEN [err |-> ErrStorage, user |-> NoUser]
  ELSE IF Len(rows) = 0 THEN [err |-> ErrUserNotFound, user |-> NoUser]
  ELSE LET row == rows[1]
           existingPassword == row.password
           r == GetRoleByID(row.role_id)
       IN IF r.err # Nil THEN [err |-> r.err, user |-> NoUser]
          ELSE [err |-> Nil,
                user |-> [Name |-> row.name, Email |-> row.email,
                          Password |-> existingPassword.String,
                          Role |-> r.role,
                          Department |-> row.department,
                          NeedsNewPass |-> (~existingPassword.Valid
                                            \/ existingPassword.String = << >>)]]

\* an insert into a table whose email column has no UNIQUE constraint
InsertUserNoUnique(u, name, email, role_id, department) ==
  [err |-> Nil,
   users |-> Append(u, [name |-> name, email |-> email,
                        password |-> NullString, role_id |-> role_id,
                        department |-> department,
                        needs_new_pass |-> FALSE])]

\* INSERT INTO users (name, email, role_id, department): password is NULL,
\* needs_new_pass takes its DEFAULT FALSE, email is UNIQUE
InsertUser(u, name, email, role_id, department) ==
  IF Len(RowsByEmail(u, email)) > 0
    THEN [err |-> ErrUniqueViolation, users |-> u]
    ELSE [err |-> Nil,
          users |-> Append(u, [name |-> name, email |-> email,
                               password |-> NullString, role_id |-> role_id,
                               department |-> department,
                               needs_new_pass |-> FALSE])]

\* a CreateUser that inserts with the zero role id when the role lookup fails
CreateUserIgnoreRoleErr(u, name, email, roleName, department, fault) ==
  LET r == GetRoleByName(roleName) IN
  IF fault THEN [err |-> ErrStorage, users |-> u]
  ELSE InsertUser(u, name, email, r.role.id, department)

\* DBUserStore.CreateUser
CreateUser(u, name, email, roleName, department, fault) ==
  LET r == GetRoleByName(roleName) IN
  IF r.err # Nil THEN [err |-> r.err, users |-> u]
  ELSE IF fault THEN [err |-> ErrStorage, users |-> u]
  ELSE InsertUser(u, name, email, r.role.id, department)

\* an UPDATE without its WHERE clause
UpdatePasswordAllRows(u, email, hashedPassword, fault) ==
  IF fault THEN [err |-> ErrStorage, users |-> u]
  ELSE [err |-> Nil,
        users |-> [i \in 1..Len(u) |->
                     [u[i] EXCEPT !.password = NotNull(hashedPassword)]]]

\* DBUserStore.UpdatePassword: UPDATE users SET password=$1 WHERE email=$2
\* (zero matching rows is not an error)
UpdatePassword(u, email, hashedPassword, fault) ==
  IF fault THEN [err |-> ErrStorage, users |-> u]
  ELSE [err |-> Nil,
        users |-> [i \in 1..Len(u) |->
                     IF u[i].email = email
                       THEN [u[i] EXCEPT !.password = NotNull(hashedPassword)]
                       ELSE u[i]]]

\* ------------------------------------------------------- requests, responses
\* a decoded request body; bad: json.Decode returned an error
BadBody ==
  [bad |-> TRUE, email |-> "", name |-> "", role |-> "", department |-> "",
   password |-> << >>]
Body(email, name, role, department, password) ==
  [bad |-> FALSE, email |-> email, name |-> name, role |-> role,
   department |-> department, password |-> password]

\* models.SignUpRequest
SignUpBodies ==
  {BadBody} \cup UNION { { Body(e, pr.name, pr.role, pr.department, << >>) :
                              pr \in ProfilesFor(e) } : e \in Emails }
\* models.User as decoded by CheckUser (only the email is used)
CheckUserBodies == {BadBody} \cup { Body(e, "", "", "", << >>) : e \in Emails }
\* models.SetNewPasswordRequest
SetNewPasswordBodies ==
  {BadBody} \cup UNION { { Body(e, "", "", "", pw) : pw \in PasswordsSetFor(e) } :
                         e \in Emails }
\* models.LoginCredentials
LoginBodies ==
  {BadBody} \cup UNION { { Body(e, "", "", "", pw) : pw \in PasswordsTriedFor(e) } :
                         e \in Emails }

NoBody == Body("", "", "", "", << >>)

\* what the handler wrote to the http.ResponseWriter
\* http.Error(w, msg, status) / w.WriteHeader(status); w.Write(msg)
Text(status, msg) ==
  [status |-> status, msg |-> msg, needsNewPass |-> "", token |-> NoToken,
   name |-> "", role |-> ""]
\* json.NewEncoder(w).Encode(map[string]bool{"needsNewPass": b})
NeedsNewPassJSON(b) ==
  [status |-> StatusOK, msg |-> "", needsNewPass |-> IF b THEN "true" ELSE "false",
   token |-> NoToken, name |-> "", role |-> ""]
\* json.NewEncoder(w).Encode({"token", "name", "role"})
TokenJSON(token, name, role) ==
  [status |-> StatusOK, msg |-> "", needsNewPass |-> "", token |-> token,
   name |-> name, role |-> role]

\* -------------------------------------------------------------- handlers
\* a sign-up that does not stop when the lookup finds the account
SignUpCheckNoConflict(u, body, fault) ==
  IF body.bad THEN [done |-> TRUE, resp |-> Text(StatusBadRequest, "Invalid input"), err |-> Nil]
  ELSE LET g == GetUserByEmail(u, body.email, fault) IN
    IF g.err # Nil /\ g.err # ErrUserNotFound
      THEN [done |-> TRUE, resp |-> Text(StatusInternalServerError, "Server error"),
            err |-> g.err]
    ELSE [done |-> FALSE, resp |-> Text(0, ""), err |-> g.err]

\* AuthHandlers.SignUp up to and including the existence check.
\* done: the handler has answered; otherwise it goes on to CreateUser
SignUpCheck(u, body, fault) ==
  IF body.bad THEN [done |-> TRUE, resp |-> Text(StatusBadRequest, "Invalid input"), err |-> Nil]
  ELSE LET g == GetUserByEmail(u, body.email, fault) IN
    IF g.err = Nil
      THEN [done |-> TRUE, resp |-> Text(StatusConflict, "User already exists"), err |-> Nil]
    ELSE IF g.err # ErrUserNotFound
      THEN [done |-> TRUE, resp |-> Text(StatusInternalServerError, "Server error"),
            err |-> g.err]
    ELSE [done |-> FALSE, resp |-> Text(0, ""), err |-> g.err]

\* AuthHandlers.SignUp from the insert on
SignUpInsert(u, body, fault) ==
  LET c == CreateUser(u, body.name, body.email, body.role, body.department, fault) IN
  IF c.err # Nil
    THEN [resp |-> Text(StatusInternalServerError, "Could not create user"),
          err |-> c.err, users |-> c.users]
    ELSE [resp |-> Text(StatusCreated, "User created successfully"),
          err |-> Nil, users |-> c.users]

\* a CheckUser that echoes the digest part of the stored hash in its body
CheckUserHandlerEchoHash(u, body, fault) ==
  IF body.bad THEN [resp |-> Text(StatusBadRequest, "Invalid request"), err |-> Nil]
  ELSE LET g == GetUserByEmail(u, body.email, fault) IN
    IF g.err # Nil
      THEN IF g.err = ErrUserNotFound
             THEN [resp |-> Text(StatusNotFound, "User not found"), err |-> g.err]
             ELSE [resp |-> Text(StatusInternalServerError, "Server error"), err |-> g.err]
      ELSE [resp |-> [NeedsNewPassJSON(g.user.NeedsNewPass) EXCEPT
                        !.msg = IF Len(g.user.Password) > 4
                                  THEN g.user.Password[5] ELSE ""],
            err |-> Nil]

\* AuthHandlers.CheckUser
CheckUserHandler(u, body, fault) ==
  IF body.bad THEN [resp |-> Text(StatusBadRequest, "Invalid request"), err |-> Nil]
  ELSE LET g == GetUserByEmail(u, body.email, fault) IN
    IF g.err # Nil
      THEN IF g.err = ErrUserNotFound
             THEN [resp |-> Text(StatusNotFound, "User not found"), err |-> g.err]
             ELSE [resp |-> Text(StatusInternalServerError, "Server error"), err |-> g.err]
      ELSE [resp |-> NeedsNewPassJSON(g.user.NeedsNewPass), err |-> Nil]

\* a set-password that goes on to hash and UPDATE when the lookup fails
SetNewPasswordCheckNoLookupError(u, body, fault) ==
  IF body.bad THEN [done |-> TRUE, resp |-> Text(StatusBadRequest, "Invalid input"), err |-> Nil]
  ELSE LET g == GetUserByEmail(u, body.email, fault) IN
    IF g.err = Nil /\ ~g.user.NeedsNewPass
      THEN [done |-> TRUE,
            resp |-> Text(StatusConflict, "Password already set. Use login instead."),
            err |-> Nil]
    ELSE [done |-> FALSE, resp |-> Text(0, ""), err |-> Nil]

\* AuthHandlers.SetNewPassword up to and including the NeedsNewPass check
SetNewPasswordCheck(u, body, fault) ==
  IF body.bad THEN [done |-> TRUE, resp |-> Text(StatusBadRequest, "Invalid input"), err |-> Nil]
  ELSE LET g == GetUserByEmail(u, body.email, fault) IN
    IF g.err # Nil
      THEN [done |-> TRUE, resp |-> Text(StatusNotFound, "User not found"), err |-> g.err]
    ELSE IF ~g.user.NeedsNewPass
      THEN [done |-> TRUE,
            resp |-> Text(StatusConflict, "Password already set. Use login instead."),
            err |-> Nil]
    ELSE [done |-> FALSE, resp |-> Text(0, ""), err |-> Nil]

\* a set-password that stores the password as received instead of its hash
SetNewPasswordWritePlaintext(u, body, salt, fault) ==
  LET w == UpdatePassword(u, body.email, body.password, fault) IN
  IF w.err # Nil
    THEN [resp |-> Text(StatusInternalServerError, "Error updating password"),
          err |-> w.err, users |-> w.users]
    ELSE [resp |-> Text(StatusOK, "Password set successfully"),
          err |-> Nil, users |-> w.users]

\* AuthHandlers.SetNewPassword from the hashing on; salt: bcrypt's random salt
SetNewPasswordWrite(u, body, salt, fault) ==
  LET h == BcryptGenerateFromPassword(body.password, salt) IN
  IF h.err # Nil
    THEN [resp |-> Text(StatusInternalServerError, "Error setting password"),
          err |-> h.err, users |-> u]
  ELSE LET w == UpdatePassword(u, body.email, h.hash, fault) IN
    IF w.err # Nil
      THEN [resp |-> Text(StatusInternalServerError, "Error updating password"),
            err |-> w.err, users |-> w.users]
      ELSE [resp |-> Text(StatusOK, "Password set successfully"),
            err |-> Nil, users |-> w.users]

\* a login that compares the supplied password with the stored value for
\* equality instead of calling bcrypt
LoginHandlerCompareEqual(u, body, fault) ==
  IF body.bad \/ body.password = << >>
    THEN [resp |-> Text(StatusBadRequest, "Invalid input"), err |-> Nil]
  ELSE LET g == GetUserByEmail(u, body.email, fault) IN
    IF g.err # Nil
      THEN IF g.err = ErrUserNotFound
             THEN [resp |-> Text(StatusNotFound, "User not found"), err |-> g.err]
             ELSE [resp |-> Text(StatusInternalServerError, "Server error"), err |-> g.err]
    ELSE IF g.user.NeedsNewPass
      THEN [resp |-> Text(StatusUnauthorized, "User needs to set a new password"),
            err |-> Nil]
    ELSE LET c == IF g.user.Password = body.password
                    THEN Nil ELSE ErrMismatchedHashAndPassword IN
      IF c # Nil
        THEN [resp |-> Text(StatusUnauthorized, "Invalid password"), err |-> c]
      ELSE LET t == GenerateJWT(g.user.Email, g.user.Role.role_name) IN
        IF t.err # Nil
          THEN [resp |-> Text(StatusInternalServerError, "Could not generate token"),
                err |-> t.err]
          ELSE [resp |-> TokenJSON(t.token, g.user.Name, g.user.Role.role_name),
                err |-> Nil]

\* a login that looks the account up before it tests the password for
\* emptiness
LoginHandlerLookupFirst(u, body, fault) ==
  IF body.bad
    THEN [resp |-> Text(StatusBadRequest, "Invalid input"), err |-> Nil]
  ELSE LET g == GetUserByEmail(u, body.email, fault) IN
    IF g.err # Nil
      THEN IF g.err = ErrUserNotFound
             THEN [resp |-> Text(StatusNotFound, "User not found"), err |-> g.err]
             ELSE [resp |-> Text(StatusInternalServerError, "Server error"), err |-> g.err]
    ELSE IF body.password = << >>
      THEN [resp |-> Text(StatusBadRequest, "Invalid input"), err |-> Nil]
    ELSE IF g.user.NeedsNewPass
      THEN [resp |-> Text(StatusUnauthorized, "User needs to set a new password"),
            err |-> Nil]
    ELSE LET c == BcryptCompareHashAndPassword(g.user.Password, body.password) IN
      IF c # Nil
        THEN [resp |-> Text(StatusUnauthorized, "Invalid password"), err |-> c]
      ELSE LET t == GenerateJWT(g.user.Email, g.user.Role.role_name) IN
        IF t.err # Nil
          THEN [resp |-> Text(StatusInternalServerError, "Could not generate token"),
                err |-> t.err]
          ELSE [resp |-> TokenJSON(t.token, g.user.Name, g.user.Role.role_name),
                err |-> Nil]

\* a login that answers an unknown email as it answers a wrong password
LoginHandlerUniform401(u, body, fault) ==
  IF body.bad \/ body.password = << >>
    THEN [resp |-> Text(StatusBadRequest, "Invalid input"), err |-> Nil]
  ELSE LET g == GetUserByEmail(u, body.email, fault) IN
    IF g.err # Nil
      THEN IF g.err = ErrUserNotFound
             THEN [resp |-> Text(StatusUnauthorized, "Invalid password"), err |-> g.err]
             ELSE [resp |-> Text(StatusInternalServerError, "Server error"), err |-> g.err]
    ELSE IF g.user.NeedsNewPass
      THEN [resp |-> Text(StatusUnauthorized, "User needs to set a new password"),
            err |-> Nil]
    ELSE LET c == BcryptCompareHashAndPassword(g.user.Password, body.password) IN
      IF c # Nil
        THEN [resp |-> Text(StatusUnauthorized, "Invalid password"), err |-> c]
      ELSE LET t == GenerateJWT(g.user.Email, g.user.Role.role_name) IN
        IF t.err # Nil
          THEN [resp |-> Text(StatusInternalServerError, "Could not generate token"),
                err |-> t.err]
          ELSE [resp |-> TokenJSON(t.token, g.user.Name, g.user.Role.role_name),
                err |-> Nil]

\* AuthHandlers.Login
LoginHandler(u, body, fault) ==
  IF body.bad \/ body.password = << >>
    THEN [resp |-> Text(StatusBadRequest, "Invalid input"), err |-> Nil]
  ELSE LET g == GetUserByEmail(u, body.email, fault) IN
    IF g.err # Nil
      THEN IF g.err = ErrUserNotFound
             THEN [resp |-> Text(StatusNotFound, "User not found"), err |-> g.err]
             ELSE [resp |-> Text(StatusInternalServerError, "Server error"), err |-> g.err]
    ELSE IF g.user.NeedsNewPass
      THEN [resp |-> Text(StatusUnauthorized, "User needs to set a new password"),
            err |-> Nil]
    ELSE LET c == BcryptCompareHashAndPassword(g.user.Password, body.password) IN
      IF c # Nil
        THEN [resp |-> Text(StatusUnauthorized, "Invalid password"), err |-> c]
      ELSE LET t == GenerateJWT(g.user.Email, g.user.Role.role_name) IN
        IF t.err # Nil
          THEN [resp |-> Text(StatusInternalServerError, "Could not generate token"),
                err |-> t.err]
          ELSE [resp |-> TokenJSON(t.token, g.user.Name, g.user.Role.role_name),
                err |-> Nil]

\* ------------------------------------------- tables with a SERIAL id column
\* a table is its rows, in insertion order, and the last value its id
\* sequence has given out
EmptyTable == [rows |-> << >>, nextval |-> 0]
\* what can go wrong in a database call: "down", the call does not reach the
\* database; "rejected", the statement violates a constraint of the row
\* (foreign key, NOT NULL, column width) after the id default was evaluated
DBFaults == {"none", "rejected", "down"}
ErrConstraint == "violates constraint"
\* the rows of table t whose id is id
RowsByID(t, id) == SelectSeq(t.rows, LAMBDA row : row.id = id)
\* INSERT of row (its id column left to the SERIAL default)
InsertRow(t, row, fault) ==
  IF fault = "down" THEN [err |-> ErrStorage, id |-> 0, table |-> t]
  ELSE IF fault = "rejected"
    THEN [err |-> ErrConstraint, id |-> 0,
          table |-> [t EXCEPT !.nextval = @ + 1]]
  ELSE [err |-> Nil, id |-> t.nextval + 1,
        table |-> [rows |-> Append(t.rows, [row EXCEPT !.id = t.nextval + 1]),
                   nextval |-> t.nextval + 1]]

\* the response a leave, attendance or bill handler wrote: req is the
\* request, row the entity encoded in the body (or the request's where none
\* was), before the table before the step
Reply(op, req, status, msg, err, row, before) ==
  [op |-> op, req |-> req, status |-> status, msg |-> msg, err |-> err,
   row |-> row, before |-> before]
NoReply == Reply("none", << >>, 0, "", Nil, << >>, EmptyTable)

\* ----------------------------------------------------------- leave handlers
\* models.Leave as decoded from a request body; dates are day numbers
BadLeave ==
  [bad |-> TRUE, id |-> 0, user_id |-> 0, leave_type |-> "", start_date |-> 0,
   end_date |-> 0, status |-> ""]
LeaveBodies ==
  {BadLeave} \cup
  [bad : {FALSE}, id : {0, 7}, user_id : {1}, leave_type : {"Vacation"},
   start_date : {20}, end_date : {25}, status : {"", "Approved", "Rejected"}]
\* the columns of a row of the leave table
LeaveRow(l) ==
  [id |-> l.id, user_id |-> l.user_id, leave_type |-> l.leave_type,
   start_date |-> l.start_date, end_date |-> l.end_date, status |-> l.status]

\* DBLeaveStore.CreateLeave
CreateLeave(t, l, fault) == InsertRow(t, LeaveRow(l), fault)

\* a handler that stores the status the request body carried
CreateLeaveHandlerKeepStatus(t, body, fault) ==
  IF body.bad
    THEN [reply |-> Reply("CreateLeave", body, StatusBadRequest,
                          "Invalid request payload", Nil, body, t),
          table |-> t]
  ELSE LET c == CreateLeave(t, body, fault) IN
    IF c.err # Nil
      THEN [reply |-> Reply("CreateLeave", body, StatusInternalServerError,
                            "Failed to create leave", c.err, body, t),
            table |-> c.table]
      ELSE [reply |-> Reply("CreateLeave", body, StatusCreated, "", Nil,
                            LeaveRow(body), t),
            table |-> c.table]

\* CreateLeaveHandler
CreateLeaveHandler(t, body, fault) ==
  IF body.bad
    THEN [reply |-> Reply("CreateLeave", body, StatusBadRequest,
                          "Invalid request payload", Nil, body, t),
          table |-> t]
  ELSE LET l == [body EXCEPT !.status = "Pending"]
           c == CreateLeave(t, l, fault)
       IN IF c.err # Nil
            THEN [reply |-> Reply("CreateLeave", body, StatusInternalServerError,
                                  "Failed to create leave", c.err, body, t),
                  table |-> c.table]
            ELSE [reply |-> Reply("CreateLeave", body, StatusCreated, "", Nil,
                                  LeaveRow(l), t),
                  table |-> c.table]

\* the body of an UpdateLeaveStatus request: {"id", "status"}
BadLeaveStatus == [bad |-> TRUE, id |-> 0, status |-> ""]
LeaveStatusBodies ==
  {BadLeaveStatus} \cup
  [bad : {FALSE}, id : 1..(MaxIds + 1), status : {"Approved", "Rejected"}]

\* DBLeaveStore.UpdateLeaveStatus: UPDATE leave SET status = $1 WHERE id = $2
\* (zero matching rows is not an error)
UpdateLeaveStatus(t, id, status, fault) ==
  IF fault = "down" THEN [err |-> ErrStorage, table |-> t]
  ELSE IF fault = "rejected" /\ Len(RowsByID(t, id)) > 0
    THEN [err |-> ErrConstraint, table |-> t]
  ELSE [err |-> Nil,
        table |-> [t EXCEPT !.rows =
                     [i \in 1..Len(t.rows) |->
                        IF t.rows[i].id = id
                          THEN [t.rows[i] EXCEPT !.status = status]
                          ELSE t.rows[i]]]]

\* UpdateLeaveStatusHandler
UpdateLeaveStatusHandler(t, body, fault) ==
  IF body.bad
    THEN [reply |-> Reply("UpdateLeaveStatus", body, StatusBadRequest,
                          "Invalid request payload", Nil, body, t),
          table |-> t]
  ELSE LET c == UpdateLeaveStatus(t, body.id, body.status, fault) IN
    IF c.err # Nil
      THEN [reply |-> Reply("UpdateLeaveStatus", body, StatusInternalServerError,
                            "Failed to update leave status", c.err, body, t),
            table |-> c.table]
      ELSE [reply |-> Reply("UpdateLeaveStatus", body, StatusOK,
                            "Leave status updated successfully", Nil, body, t),
            table |-> c.table]

\* ------------------------------------------------------ attendance handlers
\* models.Attendance as decoded from a request body; a time is a number of
\* hours, 0 being the zero time.Time (the field was not given)
BadAttendance ==
  [bad |-> TRUE, id |-> 0, user_id |-> 0, check_in |-> 0, check_out |-> 0,
   total_hours |-> 0]
AttendanceBodies ==
  {BadAttendance} \cup
  [bad : {FALSE}, id : {0}, user_id : {1}, check_in : {0, 9, 17},
   check_out : {0, 9, 17}, total_hours : {0, 5}]
\* the columns of a row of the attendance table
AttendanceRow(a) ==
  [id |-> a.id, user_id |-> a.user_id, check_in |-> a.check_in,
   check_out |-> a.check_out, total_hours |-> a.total_hours]
\* time.Time.IsZero
IsZero(t) == t = 0

\* DBAttendanceStore.CreateAttendance
CreateAttendance(t, a, fault) == InsertRow(t, AttendanceRow(a), fault)

\* CreateAttendanceRecord
CreateAttendanceRecord(t, body, fault) ==
  IF body.bad
    THEN [reply |-> Reply("CreateAttendance", body, StatusBadRequest,
                          "Invalid request payload", Nil, body, t),
          table |-> t]
  ELSE LET both == ~IsZero(body.check_in) /\ ~IsZero(body.check_out)
           duration == body.check_out - body.check_in
       IN IF both /\ duration < 0
            THEN [reply |-> Reply("CreateAttendance", body, StatusBadRequest,
                                  "Check-out time cannot be before check-in time",
                                  Nil, body, t),
                  table |-> t]
          ELSE LET a == IF both THEN [body EXCEPT !.total_hours = duration]
                                ELSE body
                   c == CreateAttendance(t, a, fault)
               IN IF c.err # Nil
                    THEN [reply |-> Reply("CreateAttendance", body,
                                          StatusInternalServerError,
                                          "Failed to create attendance", c.err, body, t),
                          table |-> c.table]
                    ELSE [reply |-> Reply("CreateAttendance", body, StatusCreated,
                                          "", Nil, AttendanceRow(a), t),
                          table |-> c.table]

\* ------------------------------------------------------------ bill handlers
\* a path segment or other Go string that is parsed is a tuple of characters
Digits == {ToString(n) : n \in 0..9}
DigitVal(c) == CHOOSE n \in 0..9 : ToString(n) = c
RECURSIVE DecimalValue(_)
DecimalValue(s) ==
  IF s = << >> THEN 0
  ELSE DecimalValue(SubSeq(s, 1, Len(s) - 1)) * 10 + DigitVal(s[Len(s)])
RECURSIVE Itoa(_)
Itoa(n) ==
  IF n < 10 THEN <<ToString(n)>> ELSE Itoa(n \div 10) \o <<ToString(n % 10)>>
ErrSyntax == "invalid syntax"
\* strconv.Atoi: an optional sign, then one or more decimal digits (the
\* paths sent are far shorter than a value out of range of int)
Atoi(s) ==
  LET signed == Len(s) > 0 /\ s[1] \in {"+", "-"}
      digits == IF signed THEN Tail(s) ELSE s
  IN IF digits = << >> \/ \E i \in 1..Len(digits) : digits[i] \notin Digits
       THEN [err |-> ErrSyntax, n |-> 0]
       ELSE [err |-> Nil,
             n |-> IF signed /\ s[1] = "-" THEN 0 - DecimalValue(digits)
                   ELSE DecimalValue(digits)]
\* the {id} segments sent: the ids the table can give out and one more, an id
\* with a leading zero, a negative number and a word
BillPaths ==
  {Itoa(n) : n \in 1..(MaxIds + 1)} \cup {<<"0", "1">>, <<"-", "1">>, <<"a">>}

\* models.Payment as decoded from a request body; PaymentDate is in hours
NoPayment ==
  [bad |-> FALSE, id |-> 0, invoice_id |-> 0, amount |-> 0, payment_date |-> 0,
   payment_method |-> ""]
BadPayment == [NoPayment EXCEPT !.bad = TRUE]
PaymentBodies ==
  {BadPayment} \cup
  [bad : {FALSE}, id : 0..MaxIds, invoice_id : {1}, amount : {10},
   payment_date : {0}, payment_method : {"Cash"}] \cup
  [bad : {FALSE}, id : 0..MaxIds, invoice_id : {1}, amount : {20},
   payment_date : {30}, payment_method : {"Card"}]
\* payment_date is a DATE column: the time of day is dropped
HoursPerDay == 24
DateOf(t) == (t \div HoursPerDay) * HoursPerDay
\* the columns of a row of the payments table
PaymentRow(p) ==
  [id |-> p.id, invoice_id |-> p.invoice_id, amount |-> p.amount,
   payment_date |-> DateOf(p.payment_date), payment_method |-> p.payment_method]
\* a row scanned into a models.Payment
PaymentOf(row) ==
  [bad |-> FALSE, id |-> row.id, invoice_id |-> row.invoice_id,
   amount |-> row.amount, payment_date |-> row.payment_date,
   payment_method |-> row.payment_method]
ErrNoRows == "sql: no rows in result set"
ErrNoPayment == "payment does not exist"

\* DBPaymentStore.CreatePayment: INSERT ... RETURNING id
CreatePayment(t, p, fault) == InsertRow(t, PaymentRow(p), fault)

\* DBPaymentStore.GetPaymentByID
GetPaymentByID(t, id, fault) ==
  IF fault = "down" THEN [err |-> ErrStorage, payment |-> NoPayment]
  ELSE IF Len(RowsByID(t, id)) = 0 THEN [err |-> ErrNoRows, payment |-> NoPayment]
  ELSE [err |-> Nil, payment |-> PaymentOf(RowsByID(t, id)[1])]

\* DBPaymentStore.UpdatePayment: UPDATE payments SET ... WHERE id = $5, an
\* error when no row was affected
UpdatePayment(t, p, fault) ==
  IF fault = "down" THEN [err |-> ErrStorage, table |-> t]
  ELSE IF Len(RowsByID(t, p.id)) = 0 THEN [err |-> ErrNoPayment, table |-> t]
  ELSE IF fault = "rejected" THEN [err |-> ErrConstraint, table |-> t]
  ELSE [err |-> Nil,
        table |-> [t EXCEPT !.rows =
                     [i \in 1..Len(t.rows) |->
                        IF t.rows[i].id = p.id THEN PaymentRow(p)
                                               ELSE t.rows[i]]]]

\* DeletePayment without the test of the affected rows
DeletePaymentAnyCount(t, id, fault) ==
  IF fault = "down" THEN [err |-> ErrStorage, table |-> t]
  ELSE [err |-> Nil,
        table |-> [t EXCEPT !.rows = SelectSeq(@, LAMBDA row : row.id # id)]]

\* DBPaymentStore.DeletePayment: DELETE FROM payments WHERE id = $1, an
\* error when no row was affected
DeletePayment(t, id, fault) ==
  IF fault = "down" THEN [err |-> ErrStorage, table |-> t]
  ELSE IF Len(RowsByID(t, id)) = 0 THEN [err |-> ErrNoPayment, table |-> t]
  ELSE [err |-> Nil,
        table |-> [t EXCEPT !.rows = SelectSeq(@, LAMBDA row : row.id # id)]]

\* a request to a bill route: the {id} segment (empty for POST) and the body
BillReq(path, body) == [path |-> path, body |-> body]

\* AccountsPayableHandler.CreateBill at time at
CreateBill(t, body, fault, at) ==
  IF body.bad
    THEN [reply |-> Reply("CreateBill", BillReq(<< >>, body), StatusBadRequest,
                          "Invalid input data", Nil, NoPayment, t),
          table |-> t]
  ELSE LET payment == [body EXCEPT !.payment_date = at]
           c == CreatePayment(t, payment, fault)
       IN IF c.err # Nil
            THEN [reply |-> Reply("CreateBill", BillReq(<< >>, body),
                                  StatusInternalServerError,
                                  "Failed to create payment", c.err, NoPayment, t),
                  table |-> c.table]
            ELSE [reply |-> Reply("CreateBill", BillReq(<< >>, body), StatusCreated,
                                  "", Nil, [payment EXCEPT !.id = c.id], t),
                  table |-> c.table]

\* AccountsPayableHandler.GetBill
GetBill(t, path, fault) ==
  LET id == Atoi(path) IN
  IF id.err # Nil
    THEN [reply |-> Reply("GetBill", BillReq(path, NoPayment), StatusBadRequest,
                          "Invalid bill ID", Nil, NoPayment, t),
          table |-> t]
  ELSE LET g == GetPaymentByID(t, id.n, fault) IN
    IF g.err # Nil
      THEN [reply |-> Reply("GetBill", BillReq(path, NoPayment), StatusNotFound,
                            "Bill not found", g.err, NoPayment, t),
            table |-> t]
      ELSE [reply |-> Reply("GetBill", BillReq(path, NoPayment), StatusOK,
                            "", Nil, g.payment, t),
            table |-> t]

\* UpdateBill that keeps the id the body carried
UpdateBillBodyID(t, path, body, fault) ==
  LET id == Atoi(path) IN
  IF id.err # Nil
    THEN [reply |-> Reply("UpdateBill", BillReq(path, body), StatusBadRequest,
                          "Invalid bill ID", Nil, NoPayment, t),
          table |-> t]
  ELSE IF body.bad
    THEN [reply |-> Reply("UpdateBill", BillReq(path, body), StatusBadRequest,
                          "Invalid input data", Nil, NoPayment, t),
          table |-> t]
  ELSE LET payment == body
           c == UpdatePayment(t, payment, fault)
       IN IF c.err # Nil
            THEN [reply |-> Reply("UpdateBill", BillReq(path, body),
                                  StatusInternalServerError,
                                  "Failed to update bill", c.err, NoPayment, t),
                  table |-> c.table]
            ELSE [reply |-> Reply("UpdateBill", BillReq(path, body), StatusOK,
                                  "", Nil, payment, t),
                  table |-> c.table]

\* AccountsPayableHandler.UpdateBill
UpdateBill(t, path, body, fault) ==
  LET id == Atoi(path) IN
  IF id.err # Nil
    THEN [reply |-> Reply("UpdateBill", BillReq(path, body), StatusBadRequest,
                          "Invalid bill ID", Nil, NoPayment, t),
          table |-> t]
  ELSE IF body.bad
    THEN [reply |-> Reply("UpdateBill", BillReq(path, body), StatusBadRequest,
                          "Invalid input data", Nil, NoPayment, t),
          table |-> t]
  ELSE LET payment == [body EXCEPT !.id = id.n]
           c == UpdatePayment(t, payment, fault)
       IN IF c.err # Nil
            THEN [reply |-> Reply("UpdateBill", BillReq(path, body),
                                  StatusInternalServerError,
                                  "Failed to update bill", c.err, NoPayment, t),
                  table |-> c.table]
            ELSE [reply |-> Reply("UpdateBill", BillReq(path, body), StatusOK,
                                  "", Nil, payment, t),
                  table |-> c.table]

\* AccountsPayableHandler.DeleteBill
DeleteBill(t, path, fault) ==
  LET id == Atoi(path) IN
  IF id.err # Nil
    THEN [reply |-> Reply("DeleteBill", BillReq(path, NoPayment), StatusBadRequest,
                          "Invalid bill ID", Nil, NoPayment, t),
          table |-> t]
  ELSE LET c == DeletePayment(t, id.n, fault) IN
    IF c.err # Nil
      THEN [reply |-> Reply("DeleteBill", BillReq(path, NoPayment),
                            StatusInternalServerError,
                            "Failed to delete bill", c.err, NoPayment, t),
            table |-> c.table]
      ELSE [reply |-> Reply("DeleteBill", BillReq(path, NoPayment),
                            StatusNoContent, "", Nil, NoPayment, t),
            table |-> c.table]

\* ------------------------------------------------------------ the server
\* the record kept of an answered request
\*   op: the handler; phase: "check" if it answered at its lookup, "write" if
\*   it answered after its INSERT/UPDATE call; err: the error value logged or
\*   tested; before: the table before the step that answered; at: time.Now()
\*   at that step
Answered(op, phase, body, r, before) ==
  [op |-> op, phase |-> phase, body |-> body, resp |-> r.resp, err |-> r.err,
   before |-> before, at |-> now]

Waiting(pc, body) == SetToBag({[pc |-> pc, body |-> body]})

\* a goroutine is free to take a new request
Free == BagCardinality(inflight) < NumProcs

Init ==
  /\ users = << >>
  /\ inflight = EmptyBag
  /\ last = [op |-> "none", phase |-> "none", body |-> NoBody,
             resp |-> Text(0, ""), err |-> Nil, before |-> << >>, at |-> 0]
  /\ now = 0
  /\ gate = NoGate
  /\ leave = EmptyTable
  /\ attendance = EmptyTable
  /\ payments = EmptyTable
  /\ reply = NoReply

\* a sign-up whose existence check and insert are one indivisible step
SignUpAtomic(body, fault) ==
  /\ Free
  /\ LET r == SignUpCheck(users, body, fault) IN
       IF r.done
         THEN /\ last' = Answered("SignUp", "check", body, r, users)
              /\ UNCHANGED users
         ELSE LET w == SignUpInsert(users, body, fault) IN
              /\ users' = w.users
              /\ last' = Answered("SignUp", "write", body, w, users)
  /\ UNCHANGED inflight
  /\ UNCHANGED <<now, gate>>
  /\ UNCHANGED hrVars

\* SignUp, first round trip: decode and existence check
SignUp(body, fault) ==
  /\ Free
  /\ LET r == SignUpCheck(users, body, fault) IN
       IF r.done
         THEN /\ last' = Answered("SignUp", "check", body, r, users)
              /\ UNCHANGED inflight
         ELSE /\ inflight' = inflight (+) Waiting("SignUp.CreateUser", body)
              /\ UNCHANGED last
  /\ UNCHANGED users
  /\ UNCHANGED <<now, gate>>
  /\ UNCHANGED hrVars

\* SignUp, second round trip: CreateUser and the answer
SignUpCreateUser(body, fault) ==
  /\ BagIn([pc |-> "SignUp.CreateUser", body |-> body], inflight)
  /\ LET r == SignUpInsert(users, body, fault) IN
       /\ users' = r.users
       /\ last' = Answered("SignUp", "write", body, r, users)
  /\ inflight' = inflight (-) Waiting("SignUp.CreateUser", body)
  /\ UNCHANGED <<now, gate>>
  /\ UNCHANGED hrVars

\* CheckUser: one lookup, one answer
CheckUser(body, fault) ==
  /\ Free
  /\ last' = Answered("CheckUser", "check", body,
                      CheckUserHandler(users, body, fault), users)
  /\ UNCHANGED <<users, inflight>>
  /\ UNCHANGED <<now, gate>>
  /\ UNCHANGED hrVars

\* SetNewPassword, first round trip: decode, lookup, NeedsNewPass check
SetNewPassword(body, fault) ==
  /\ Free
  /\ LET r == SetNewPasswordCheck(users, body, fault) IN
       IF r.done
         THEN /\ last' = Answered("SetNewPassword", "check", body, r, users)
              /\ UNCHANGED inflight
         ELSE /\ inflight' = inflight (+) Waiting("SetNewPassword.UpdatePassword", body)
              /\ UNCHANGED last
  /\ UNCHANGED users
  /\ UNCHANGED <<now, gate>>
  /\ UNCHANGED hrVars

\* SetNewPassword, second round trip: hash, UpdatePassword and the answer
SetNewPasswordUpdate(body, salt, fault) ==
  /\ BagIn([pc |-> "SetNewPassword.UpdatePassword", body |-> body], inflight)
  /\ LET r == SetNewPasswordWrite(users, body, salt, fault) IN
       /\ users' = r.users
       /\ last' = Answered("SetNewPassword", "write", body, r, users)
  /\ inflight' = inflight (-) Waiting("SetNewPassword.UpdatePassword", body)
  /\ UNCHANGED <<now, gate>>
  /\ UNCHANGED hrVars

\* a login that, when the password does not match, clears the stored hash of
\* the account (a lock-out that sends the account back to set a password)
LoginLockout(body, fault) ==
  /\ Free
  /\ LET r == LoginHandler(users, body, fault) IN
       /\ last' = Answered("Login", "check", body, r, users)
       /\ users' = IF r.err = ErrMismatchedHashAndPassword
                     THEN [i \in 1..Len(users) |->
                             IF users[i].email = body.email
                               THEN [users[i] EXCEPT !.password = NullString]
                               ELSE users[i]]
                     ELSE users
  /\ UNCHANGED inflight
  /\ UNCHANGED <<now, gate>>
  /\ UNCHANGED hrVars

\* Login: one lookup, one answer
Login(body, fault) ==
  /\ Free
  /\ last' = Answered("Login", "check", body,
                      LoginHandler(users, body, fault), users)
  /\ UNCHANGED <<users, inflight>>
  /\ UNCHANGED <<now, gate>>
  /\ UNCHANGED hrVars

\* the database answers every call
Next ==
  \/ \E body \in SignUpBodies : SignUp(body, FALSE)
  \/ \E body \in SignUpBodies : SignUpCreateUser(body, FALSE)
  \/ \E body \in CheckUserBodies : CheckUser(body, FALSE)
  \/ \E body \in SetNewPasswordBodies : SetNewPassword(body, FALSE)
  \/ \E body \in SetNewPasswordBodies, salt \in Salts :
       SetNewPasswordUpdate(body, salt, FALSE)
  \/ \E body \in LoginBodies : Login(body, FALSE)

Spec == Init /\ [][Next]_vars

\* a database call fails (connection lost, timeout, ...): the call returns
\* an error and changes nothing
StorageFault ==
  \/ \E body \in SignUpBodies : SignUp(body, TRUE)
  \/ \E body \in SignUpBodies : SignUpCreateUser(body, TRUE)
  \/ \E body \in CheckUserBodies : CheckUser(body, TRUE)
  \/ \E body \in SetNewPasswordBodies : SetNewPassword(body, TRUE)
  \/ \E body \in SetNewPasswordBodies, salt \in Salts :
       SetNewPasswordUpdate(body, salt, TRUE)
  \/ \E body \in LoginBodies : Login(body, TRUE)

NextFault == Next \/ StorageFault

\* the same program over a database whose calls may fail
SpecFault == Init /\ [][NextFault]_vars

\* time passes
Tick ==
  /\ now < MaxTicks * TickHours
  /\ now' = now + TickHours
  /\ UNCHANGED <<users, inflight, last, gate>>
  /\ UNCHANGED hrVars

\* the server with its clock running
NextClock == Next \/ Tick
SpecClock == Init /\ [][NextClock]_vars

\* JWTAuth serves a request that carries this Authorization header
JWTAuth(header) ==
  /\ gate' = JWTAuthHandler(header, now)
  /\ UNCHANGED <<users, inflight, last, now>>
  /\ UNCHANGED hrVars

\* the routes behind the gate, requests carrying any header
NextGate ==
  \/ Tick
  \/ \E header \in AuthorizationHeaders(now) : JWTAuth(header)
SpecGate == Init /\ [][NextGate]_vars

\* POST /leaves
PostLeave(body, fault) ==
  /\ leave.nextval < MaxIds
  /\ LET r == CreateLeaveHandler(leave, body, fault) IN
       /\ leave' = r.table
       /\ reply' = r.reply
  /\ UNCHANGED <<users, inflight, last, now, gate, attendance, payments>>

\* PUT /leaves/status
PutLeaveStatus(body, fault) ==
  /\ LET r == UpdateLeaveStatusHandler(leave, body, fault) IN
       /\ leave' = r.table
       /\ reply' = r.reply
  /\ UNCHANGED <<users, inflight, last, now, gate, attendance, payments>>

\* the leave routes
NextLeave ==
  \/ \E body \in LeaveBodies, fault \in DBFaults : PostLeave(body, fault)
  \/ \E body \in LeaveStatusBodies, fault \in DBFaults : PutLeaveStatus(body, fault)
SpecLeave == Init /\ [][NextLeave]_vars

\* POST /attendance
PostAttendance(body, fault) ==
  /\ attendance.nextval < MaxIds
  /\ LET r == CreateAttendanceRecord(attendance, body, fault) IN
       /\ attendance' = r.table
       /\ reply' = r.reply
  /\ UNCHANGED <<users, inflight, last, now, gate, leave, payments>>

\* the attendance route
NextAttendance ==
  \E body \in AttendanceBodies, fault \in DBFaults : PostAttendance(body, fault)
SpecAttendance == Init /\ [][NextAttendance]_vars

\* POST /bills
PostBill(body, fault) ==
  /\ payments.nextval < MaxIds
  /\ LET r == CreateBill(payments, body, fault, now) IN
       /\ payments' = r.table
       /\ reply' = r.reply
  /\ UNCHANGED <<users, inflight, last, now, gate, leave, attendance>>

\* GET /bills/{id}
GetBillByID(path, fault) ==
  /\ LET r == GetBill(payments, path, fault) IN
       /\ payments' = r.table
       /\ reply' = r.reply
  /\ UNCHANGED <<users, inflight, last, now, gate, leave, attendance>>

\* PUT /bills/{id}
PutBill(path, body, fault) ==
  /\ LET r == UpdateBill(payments, path, body, fault) IN
       /\ payments' = r.table
       /\ reply' = r.reply
  /\ UNCHANGED <<users, inflight, last, now, gate, leave, attendance>>

\* DELETE /bills/{id}
DeleteBillByID(path, fault) ==
  /\ LET r == DeleteBill(payments, path, fault) IN
       /\ payments' = r.table
       /\ reply' = r.reply
  /\ UNCHANGED <<users, inflight, last, now, gate, leave, attendance>>

\* the bill routes (a SELECT or a DELETE of payments violates no constraint)
NextBills ==
  \/ \E body \in PaymentBodies, fault \in DBFaults : PostBill(body, fault)
  \/ \E path \in BillPaths, fault \in {"none", "down"} : GetBillByID(path, fault)
  \/ \E path \in BillPaths, body \in PaymentBodies, fault \in DBFaults :
       PutBill(path, body, fault)
  \/ \E path \in BillPaths, fault \in {"none", "down"} : DeleteBillByID(path, fault)
SpecBills == Init /\ [][NextBills]_vars

\* ============================================================ properties
\* an account with this email exists
Registered(u, e) == Len(RowsByEmail(u, e)) > 0
\* the password column of the account (of its first row)
StoredPassword(u, e) == RowsByEmail(u, e)[1].password
\* PENDING: the account exists and has no password hash (NULL or empty)
Pending(u, e) ==
  Registered(u, e) /\ (~StoredPassword(u, e).Valid \/ StoredPassword(u, e).String = << >>)
\* ACTIVE: the account exists and has a non-empty password hash
Active(u, e) == Registered(u, e) /\ ~Pending(u, e)
\* the stored hash is a bcrypt hash of pw
HashOf(u, e, pw) ==
  \E s \in Salts :
    StoredPassword(u, e) = NotNull(BcryptGenerateFromPassword(pw, s).hash)

LoginBody(e, pw) == Body(e, "", "", "", pw)
EmailBody(e) == Body(e, "", "", "", << >>)

\* C1: a Login answer carries a token exactly when it is 200, and only for an
\* email that has an account, whose account is ACTIVE, and whose stored hash
\* is a hash of the password supplied; never for a PENDING or unknown account
C1_TokenOnlyForVerifiedActive ==
  last.op = "Login" =>
    /\ (last.resp.status = StatusOK) = (last.resp.token # NoToken)
    /\ last.resp.status = StatusOK =>
         /\ ~last.body.bad
         /\ Registered(users, last.body.email)
         /\ Active(users, last.body.email)
         /\ HashOf(users, last.body.email, last.body.password)

\* a Login was answered 200 with a token
C1_Witness ==
  /\ last.op = "Login"
  /\ last.resp.status = StatusOK
  /\ last.resp.token # NoToken

\* C2 as stated: Login for a PENDING account answers 401 StillPending for
\* every password, the empty one included, and the account stays PENDING
C2_Original ==
  (last.op = "Login" /\ ~last.body.bad /\ Pending(last.before, last.body.email)) =>
    /\ last.resp.status = StatusUnauthorized
    /\ last.resp.msg = "User needs to set a new password"
    /\ Pending(users, last.body.email)

\* C2 amended: Login for a PENDING account never issues a token and leaves
\* the table as it was; it answers 401 StillPending for every non-empty
\* password and 400 Invalid input for the empty password
C2_PendingLoginFails ==
  (last.op = "Login" /\ ~last.body.bad /\ Pending(last.before, last.body.email)) =>
    /\ last.resp.token = NoToken
    /\ users = last.before
    /\ Pending(users, last.body.email)
    /\ IF last.body.password = << >>
         THEN /\ last.resp.status = StatusBadRequest
              /\ last.resp.msg = "Invalid input"
         ELSE /\ last.resp.status = StatusUnauthorized
              /\ last.resp.msg = "User needs to set a new password"

\* a Login with a non-empty password for a PENDING account was answered 401
C2_Witness ==
  /\ last.op = "Login"
  /\ last.body.password # << >>
  /\ Pending(last.before, last.body.email)
  /\ last.resp.status = StatusUnauthorized

\* C3: a SignUp answered 201 was for an email that had no account, added
\* exactly one row, which is the only row of that email and has no password
\* hash, and CheckUser for that email now answers needsNewPass = true
C3_SignUpCreatesPending ==
  (last.op = "SignUp" /\ last.resp.status = StatusCreated) =>
    /\ ~Registered(last.before, last.body.email)
    /\ Len(users) = Len(last.before) + 1
    /\ SubSeq(users, 1, Len(last.before)) = last.before
    /\ Len(RowsByEmail(users, last.body.email)) = 1
    /\ StoredPassword(users, last.body.email) = NullString
    /\ Pending(users, last.body.email)
    /\ CheckUserHandler(users, EmailBody(last.body.email), FALSE).resp
         = NeedsNewPassJSON(TRUE)

\* a SignUp was answered 201
C3_Witness ==
  /\ last.op = "SignUp"
  /\ last.resp.status = StatusCreated
  /\ Registered(users, last.body.email)

\* C4 as stated: SetNewPassword(E, P) for a PENDING account E answers 200
\* and makes E ACTIVE, after which Login(E, P) answers 200 with a token and
\* Login(E, P') answers 401 Invalid password for every P' # P
C4_Original ==
  (/\ last.op = "SetNewPassword"
   /\ ~last.body.bad
   /\ Pending(last.before, last.body.email)) =>
    /\ last.resp.status = StatusOK
    /\ Active(users, last.body.email)
    /\ LET ok == LoginHandler(users, LoginBody(last.body.email, last.body.password),
                              FALSE).resp
       IN ok.status = StatusOK /\ ok.token # NoToken
    /\ \A pw \in Passwords \ {last.body.password} :
         LoginHandler(users, LoginBody(last.body.email, pw), FALSE).resp
           = Text(StatusUnauthorized, "Invalid password")

\* C5 as stated: a SetNewPassword(E, P2) received when an earlier
\* SetNewPassword(E, P1) has already succeeded answers 409, leaves the table
\* (and so the stored hash) as it was, and Login(E, P1) still answers 200
C5_Original ==
  (/\ last.op = "SetNewPassword"
   /\ last.phase = "check"
   /\ ~last.body.bad
   /\ Active(last.before, last.body.email)) =>
    /\ last.resp.status = StatusConflict
    /\ users = last.before
    /\ \A p1 \in Passwords :
         HashOf(users, last.body.email, p1) =>
           LoginHandler(users, LoginBody(last.body.email, p1), FALSE).resp.status
             = StatusOK

\* C6: SignUp for an email that has an account, PENDING or ACTIVE, when the
\* request is received answers 409 at its existence check, and the table
\* (every account's name, role, department and password, and the number of
\* accounts) is as it was
C6_SignUpExistingConflict ==
  /\ \A body \in SignUpBodies :
       (~body.bad /\ Registered(users, body.email)) =>
         LET r == SignUpCheck(users, body, FALSE)
         IN r.done /\ r.resp = Text(StatusConflict, "User already exists")
  /\ (/\ last.op = "SignUp"
      /\ last.phase = "check"
      /\ ~last.body.bad
      /\ Registered(last.before, last.body.email)) =>
       /\ last.resp.status = StatusConflict
       /\ users = last.before
       /\ Len(users) = Len(last.before)

\* a SignUp for the email of an ACTIVE account was answered 409
C6_Witness ==
  /\ last.op = "SignUp"
  /\ last.resp.status = StatusConflict
  /\ Active(last.before, last.body.email)
  /\ \E e \in Emails : Pending(last.before, e)

\* C7: an account that is ACTIVE is ACTIVE after every step of every request
\* (it is neither returned to PENDING nor removed)
C7_ActiveIsOneWay ==
  [][\A e \in Emails : Active(users, e) => Active(users', e)]_vars

\* a SetNewPassword call wrote to the row of an account that was already
\* ACTIVE, and the account is ACTIVE
C7_Witness ==
  /\ last.op = "SetNewPassword"
  /\ last.phase = "write"
  /\ last.resp.status = StatusOK
  /\ Active(last.before, last.body.email)
  /\ Active(users, last.body.email)

\* C8 as stated: no email has two accounts, and a SignUp whose INSERT was
\* rejected as a duplicate is answered 409
C8_Original ==
  /\ \A e \in Emails : Len(RowsByEmail(users, e)) <= 1
  /\ (last.op = "SignUp" /\ last.err = ErrUniqueViolation) =>
       last.resp.status = StatusConflict

\* C9: the step of SignUp that finds no account for the email changes
\* nothing in the table, answers nothing and holds nothing: the request is
\* left waiting to insert, whether or not other sign-ups for the same email
\* are already waiting to insert
C9_CheckAndInsertAreSeparate ==
  [][\A body \in SignUpBodies :
       (~body.bad /\ ~Registered(users, body.email) /\ SignUp(body, FALSE)) =>
         /\ users' = users
         /\ last' = last
         /\ inflight' = inflight (+) Waiting("SignUp.CreateUser", body)]_vars

\* two sign-ups for the same email, which has no account, have both passed
\* the existence check and both wait to insert
C9_Witness ==
  \E e \in Emails :
    /\ ~Registered(users, e)
    /\ BagCardinality(
         [b \in { x \in BagToSet(inflight) :
                    x.pc = "SignUp.CreateUser" /\ x.body.email = e }
            |-> inflight[b]]) >= 2

\* the number of rows in which tables a and b differ
RowsChanged(a, b) ==
  LET n == IF Len(a) > Len(b) THEN Len(a) ELSE Len(b)
  IN Cardinality({ i \in 1..n : i > Len(a) \/ i > Len(b) \/ a[i] # b[i] })

\* C10: every step changes at most one row, and a step that changes the
\* table is the last step of a request, which is then answered 200 or 201;
\* so a request writes at most once and a request answered with an error
\* leaves the table as it was
C10_OneWriteNoPartialEffect ==
  [][/\ RowsChanged(users, users') <= 1
     /\ users' # users =>
          /\ last'.before = users
          /\ last'.phase = "write"
          /\ last'.resp.status \in {StatusOK, StatusCreated}
          /\ BagCardinality(inflight') = BagCardinality(inflight) - 1
     /\ (last' # last /\ last'.resp.status >= StatusBadRequest) => users' = users]_vars

\* a request was answered with an error after its write call failed, and
\* the table is as it was
C10_Witness ==
  /\ last.phase = "write"
  /\ last.resp.status = StatusInternalServerError
  /\ last.err = ErrStorage
  /\ users = last.before
  /\ Len(users) > 0

\* C11: a step of CheckUser or of Login, whatever the request and whatever
\* the answer (a failed lookup included), leaves the users table as it was:
\* no row is added, removed or changed
C11_LookupsAreReadOnly ==
  [][\A fault \in BOOLEAN :
       (\/ \E body \in CheckUserBodies : CheckUser(body, fault)
        \/ \E body \in LoginBodies : Login(body, fault)) =>
         /\ users' = users
         /\ last'.before = users
         /\ inflight' = inflight]_vars

\* a Login with a wrong password for an ACTIVE account was answered 401, and
\* the table, which holds a PENDING account too, is as it was
C11_Witness ==
  /\ last.op = "Login"
  /\ last.err = ErrMismatchedHashAndPassword
  /\ Active(last.before, last.body.email)
  /\ \E e \in Emails : Pending(last.before, e)
  /\ users = last.before

\* C12: a SetNewPassword for an email that has no account is answered 404
\* "User not found" at its lookup, the table is as it was (no account is
\* created, no hash stored), and the email still has no account: CheckUser
\* for it answers 404; a CheckUser for an email with no account is answered
\* 404
C12_UnknownEmailNotFound ==
  /\ (/\ last.op = "SetNewPassword"
      /\ ~last.body.bad
      /\ ~Registered(last.before, last.body.email)) =>
       /\ last.phase = "check"
       /\ last.resp = Text(StatusNotFound, "User not found")
       /\ last.err = ErrUserNotFound
       /\ users = last.before
       /\ ~Registered(users, last.body.email)
       /\ CheckUserHandler(users, EmailBody(last.body.email), FALSE).resp
            = Text(StatusNotFound, "User not found")
  /\ (/\ last.op = "CheckUser"
      /\ ~last.body.bad
      /\ ~Registered(last.before, last.body.email)) =>
       last.resp = Text(StatusNotFound, "User not found")

\* a SetNewPassword with a non-empty password for an email that has no
\* account was answered 404 while another account exists, and nothing was
\* stored
C12_Witness ==
  /\ last.op = "SetNewPassword"
  /\ last.body.password # << >>
  /\ last.resp.status = StatusNotFound
  /\ ~Registered(users, last.body.email)
  /\ Len(users) > 0
  /\ users = last.before

\* the table u without the account of email e
Without(u, e) == SelectSeq(u, LAMBDA row : row.email # e)

\* C13: for every non-empty password, Login for an email with no account
\* answers 404 "User not found", and Login for an ACTIVE account whose hash
\* is not a hash of that password answers 401 "Invalid password"; so the
\* answers over two tables that differ only in whether the email has an
\* account differ, and tell the caller whether the email is registered
C13_LoginRevealsRegistration ==
  /\ \A e \in Emails, pw \in Passwords \ {<< >>} :
       /\ ~Registered(users, e) =>
            LoginHandler(users, LoginBody(e, pw), FALSE).resp
              = Text(StatusNotFound, "User not found")
       /\ (Active(users, e) /\ ~HashOf(users, e, pw)) =>
            /\ LoginHandler(users, LoginBody(e, pw), FALSE).resp
                 = Text(StatusUnauthorized, "Invalid password")
            /\ LoginHandler(Without(users, e), LoginBody(e, pw), FALSE).resp
                 = Text(StatusNotFound, "User not found")
            /\ LoginHandler(Without(users, e), LoginBody(e, pw), FALSE).resp
                 # LoginHandler(users, LoginBody(e, pw), FALSE).resp
  /\ (/\ last.op = "Login"
      /\ ~last.body.bad
      /\ last.body.password # << >>
      /\ last.err # ErrStorage) =>
       /\ ~Registered(last.before, last.body.email) =>
            last.resp.status = StatusNotFound
       /\ (/\ Active(last.before, last.body.email)
           /\ ~HashOf(last.before, last.body.email, last.body.password)) =>
            last.resp.status = StatusUnauthorized

\* a Login with a non-empty password for an email that has no account was
\* answered 404, in a table where the same password is a wrong password of
\* an ACTIVE account (for which Login answers 401)
C13_Witness ==
  /\ last.op = "Login"
  /\ last.body.password # << >>
  /\ last.resp.status = StatusNotFound
  /\ ~Registered(users, last.body.email)
  /\ \E e \in Emails :
       /\ Active(users, e)
       /\ ~HashOf(users, e, last.body.password)
       /\ LoginHandler(users, LoginBody(e, last.body.password), FALSE).resp.status
            = StatusUnauthorized

\* C14: Login with an empty (or missing, which decodes to empty) password
\* answers 400 "Invalid input" with no token; the answer is the same whether
\* the email has no account, a PENDING account or an ACTIVE one, and whether
\* or not the database would answer, so no lookup has been made
C14_EmptyPasswordBadRequest ==
  /\ \A e \in Emails, fault \in BOOLEAN :
       /\ LoginHandler(users, LoginBody(e, << >>), fault)
            = [resp |-> Text(StatusBadRequest, "Invalid input"), err |-> Nil]
       /\ LoginHandler(Without(users, e), LoginBody(e, << >>), fault)
            = LoginHandler(users, LoginBody(e, << >>), fault)
  /\ (last.op = "Login" /\ ~last.body.bad /\ last.body.password = << >>) =>
       /\ last.resp = Text(StatusBadRequest, "Invalid input")
       /\ last.resp.token = NoToken
       /\ last.err = Nil
       /\ users = last.before

\* a Login with the empty password was answered 400 for an ACTIVE account,
\* while one email has a PENDING account and Login with the empty password
\* answers 400 for it too
C14_Witness ==
  /\ last.op = "Login"
  /\ ~last.body.bad
  /\ last.body.password = << >>
  /\ last.resp.status = StatusBadRequest
  /\ Active(users, last.body.email)
  /\ \E e \in Emails : Pending(users, e)

\* C15: a SignUp that reaches CreateUser with a role name that
\* GetRoleByName cannot resolve fails: CreateUser returns "role not found",
\* the request is answered with an error, and the table is as it was; if
\* the email had no account it still has none, and CheckUser for it answers
\* 404 "User not found"
C15_UnknownRoleCreatesNothing ==
  (/\ last.op = "SignUp"
   /\ last.phase = "write"
   /\ GetRoleByName(last.body.role).err # Nil) =>
    /\ last.err = ErrRoleNotFound
    /\ last.resp.status >= StatusBadRequest
    /\ users = last.before
    /\ ~Registered(last.before, last.body.email) =>
         /\ ~Registered(users, last.body.email)
         /\ CheckUserHandler(users, EmailBody(last.body.email), FALSE).resp
              = Text(StatusNotFound, "User not found")

\* a SignUp with the role "Intern", which is not in the roles table, failed
\* at CreateUser for an email that has no account, while another account
\* exists
C15_Witness ==
  /\ last.op = "SignUp"
  /\ last.phase = "write"
  /\ last.body.role = "Intern"
  /\ last.err = ErrRoleNotFound
  /\ ~Registered(users, last.body.email)
  /\ Len(users) > 0

\* the table u with the password and needs_new_pass columns of the account
\* of email e set to pwcol and flag
WithCredential(u, e, pwcol, flag) ==
  [i \in 1..Len(u) |->
     IF u[i].email = e
       THEN [u[i] EXCEPT !.password = pwcol, !.needs_new_pass = flag]
       ELSE u[i]]

\* C16: every account is PENDING or ACTIVE and not both; CheckUser answers
\* needsNewPass = true exactly when the password column of the account is
\* NULL or the empty string, whichever value the needs_new_pass column of
\* the row holds; and an answered CheckUser reported true exactly for a
\* PENDING account
C16_NeedsNewPassIsDerived ==
  /\ \A e \in Emails :
       Registered(users, e) =>
         /\ Pending(users, e) # Active(users, e)
         /\ \A pwcol \in {StoredPassword(users, e), NullString, NotNull(<< >>)},
               flag \in BOOLEAN :
              CheckUserHandler(WithCredential(users, e, pwcol, flag),
                               EmailBody(e), FALSE).resp
                = NeedsNewPassJSON(~pwcol.Valid \/ pwcol.String = << >>)
  /\ (last.op = "CheckUser" /\ last.resp.status = StatusOK) =>
       /\ Registered(last.before, last.body.email)
       /\ (last.resp.needsNewPass = "true") = Pending(last.before, last.body.email)
       /\ (last.resp.needsNewPass = "false") = Active(last.before, last.body.email)

\* a CheckUser was answered needsNewPass = true for an account whose
\* needs_new_pass column is FALSE, while another account is ACTIVE with the
\* same column value
C16_Witness ==
  /\ last.op = "CheckUser"
  /\ last.resp.needsNewPass = "true"
  /\ Pending(users, last.body.email)
  /\ ~RowsByEmail(users, last.body.email)[1].needs_new_pass
  /\ \E e \in Emails :
       Active(users, e) /\ ~RowsByEmail(users, e)[1].needs_new_pass

\* the answer to request body of handler op served from start to end, alone,
\* on table u by a database that answers every call
ReissuedAnswer(op, u, body) ==
  IF op = "SignUp"
    THEN LET r == SignUpCheck(u, body, FALSE)
         IN IF r.done THEN r.resp ELSE SignUpInsert(u, body, FALSE).resp
  ELSE IF op = "CheckUser" THEN CheckUserHandler(u, body, FALSE).resp
  ELSE IF op = "SetNewPassword"
    THEN LET r == SetNewPasswordCheck(u, body, FALSE)
         IN IF r.done THEN r.resp
            ELSE SetNewPasswordWrite(u, body, CHOOSE s \in Salts : TRUE, FALSE).resp
  ELSE LoginHandler(u, body, FALSE).resp

\* C19 as stated: a request answered 404, 409 or 401, issued again with the
\* same body while no request has changed the table since, is answered with
\* the same status and message
C19_Original ==
  (/\ last.op \in {"SignUp", "CheckUser", "SetNewPassword", "Login"}
   /\ last.resp.status \in {StatusNotFound, StatusConflict, StatusUnauthorized}) =>
    /\ users = last.before
    /\ ReissuedAnswer(last.op, users, last.body) = last.resp

\* C20: the password column of every row is NULL or a bcrypt hash of one
\* of the passwords (never the empty string, never a password as
\* received); after a SetNewPassword answered 200 the column of its account
\* is a hash of the password it carried; and for an ACTIVE account Login
\* answers 200 exactly for the passwords bcrypt's comparison accepts against
\* the stored hash, and not for the stored value presented as the password
C20_StoredValueIsHash ==
  /\ \A i \in 1..Len(users) :
       LET p == users[i].password IN
         \/ p = NullString
         \/ /\ p.Valid
            /\ p.String \notin Passwords
            /\ \E pw \in Passwords, s \in Salts :
                 p.String = BcryptGenerateFromPassword(pw, s).hash
  /\ (/\ last.op = "SetNewPassword"
      /\ last.resp.status = StatusOK) =>
       /\ HashOf(users, last.body.email, last.body.password)
       /\ StoredPassword(users, last.body.email).String # last.body.password
  /\ \A e \in Emails :
       Active(users, e) =>
         /\ \A pw \in Passwords \ {<< >>} :
              (LoginHandler(users, LoginBody(e, pw), FALSE).resp.status = StatusOK)
                = (BcryptCompareHashAndPassword(StoredPassword(users, e).String, pw)
                     = Nil)
         /\ LoginHandler(users, LoginBody(e, StoredPassword(users, e).String),
                         FALSE).resp
              = Text(StatusUnauthorized, "Invalid password")

\* a SetNewPassword with a non-empty password was answered 200 and a Login
\* with that password would be answered 200, the stored value being a hash
\* that differs from the password
C20_Witness ==
  /\ last.op = "SetNewPassword"
  /\ last.resp.status = StatusOK
  /\ last.body.password # << >>
  /\ StoredPassword(users, last.body.email).Valid
  /\ StoredPassword(users, last.body.email).String # last.body.password
  /\ LoginHandler(users, LoginBody(last.body.email, last.body.password),
                  FALSE).resp.status = StatusOK

\* the string w is a token that verifies at time t: three segments, an HMAC
\* method, signed over its own header and claims with the server secret,
\* and not past its expiration
Verifies(w, t) ==
  /\ w.segments = 3
  /\ w.alg \in SigningMethodHMAC
  /\ w.signature = [key |-> jwtSecret, alg |-> w.alg, claims |-> w.claims]
  /\ t <= w.claims.exp

\* C17 as stated: JWTAuth calls the wrapped handler exactly when the header
\* has two space-separated parts and the second is a token that verifies;
\* whenever it does not call the wrapped handler (no header, not two parts,
\* a token that fails verification) it answers 401
C17_Original ==
  gate.op = "JWTAuth" =>
    /\ gate.next = (Len(gate.header) = 2 /\ Verifies(gate.header[2], gate.at))
    /\ ~gate.next =>
         /\ gate.status = StatusUnauthorized
         /\ ~gate.panic

\* C18: a Login answered 200 at time t carries a token whose email claim is
\* the email of the account logged in and whose exp claim is t + 24 hours;
\* ValidateJWT returns the claims of that token, with that email, at every
\* time before t + 24h, and returns an error and no claims at every time
\* after t + 24h
C18_TokenLivesTwentyFourHours ==
  (last.op = "Login" /\ last.resp.status = StatusOK) =>
    LET tok == last.resp.token
        t == last.at
    IN /\ tok.claims.email = last.body.email
       /\ Registered(users, tok.claims.email)
       /\ tok.claims.exp = t + 24
       /\ \A tau \in 0..(MaxTicks * TickHours + 24 + 1) :
            /\ tau < t + 24 =>
                 /\ ValidateJWTAt(tok, tau).err = Nil
                 /\ ~ValidateJWTAt(tok, tau).panic
                 /\ ValidateJWTAt(tok, tau).claims.email = last.body.email
            /\ tau > t + 24 =>
                 /\ ValidateJWTAt(tok, tau).err # Nil
                 /\ ValidateJWTAt(tok, tau).claims = NoClaims

\* a Login was answered 200 with a token after the clock had advanced, and
\* another 24 hours and more have passed since: the token no longer verifies
C18_Witness ==
  /\ last.op = "Login"
  /\ last.resp.status = StatusOK
  /\ last.at > 0
  /\ now > last.at + 24
  /\ ValidateJWT(last.resp.token).err = ErrTokenExpired

\* C26 as stated: the password hash of an account is written at most once:
\* every SetNewPassword that is answered 200 wrote to an account that was
\* PENDING until that write, so of the concurrent requests for one PENDING
\* account at most one is answered 200
C26_Original ==
  (/\ last.op = "SetNewPassword"
   /\ last.phase = "write"
   /\ last.resp.status = StatusOK) =>
    Pending(last.before, last.body.email)

\* C27 as stated: after a SetNewPassword(E, P) answered 200, the empty P
\* included, a Login(E, P) is answered 200
C27_Original ==
  (/\ last.op = "SetNewPassword"
   /\ last.resp.status = StatusOK) =>
    /\ Active(users, last.body.email)
    /\ LoginHandler(users, LoginBody(last.body.email, last.body.password),
                    FALSE).resp.status = StatusOK

\* the hashes bcrypt can produce for the passwords
Hashes ==
  { BcryptGenerateFromPassword(pw, s).hash : pw \in Passwords, s \in Salts }

C29_Original ==
  (last.op = "SetNewPassword" /\ ~last.body.bad /\ last.phase = "check") =>
    /\ (last.resp.status = StatusNotFound) = ~Registered(last.before, last.body.email)
    /\ (last.err # Nil /\ last.err # ErrUserNotFound) =>
         last.resp.status = StatusInternalServerError
    /\ last.resp.status \in {StatusNotFound, StatusInternalServerError} =>
         users = last.before

\* C21: a CreateLeave request adds a row exactly when it is answered 201;
\* the row it adds, and the leave it returns, have the status "Pending" and
\* the user, type and dates of the request, whatever status the request
\* body carried; the rows that were there are as they were
C21_CreatedLeaveIsPending ==
  reply.op = "CreateLeave" =>
    /\ (reply.status = StatusCreated) = (leave.rows # reply.before.rows)
    /\ reply.status = StatusCreated =>
         /\ reply.row.status = "Pending"
         /\ Len(leave.rows) = Len(reply.before.rows) + 1
         /\ SubSeq(leave.rows, 1, Len(reply.before.rows)) = reply.before.rows
         /\ LET row == leave.rows[Len(leave.rows)] IN
              /\ row.status = "Pending"
              /\ row.user_id = reply.req.user_id
              /\ row.leave_type = reply.req.leave_type
              /\ row.start_date = reply.req.start_date
              /\ row.end_date = reply.req.end_date
              /\ Len(RowsByID(leave, row.id)) = 1

\* a CreateLeave whose body carried the status "Approved" was answered 201,
\* and the row stored for it has the status "Pending"
C21_Witness ==
  /\ reply.op = "CreateLeave"
  /\ reply.status = StatusCreated
  /\ reply.req.status = "Approved"
  /\ leave.rows[Len(leave.rows)].status = "Pending"
  /\ Len(leave.rows) = 2

\* C22 as stated: an UpdateLeaveStatus for the id of a stored leave request
\* is answered 200 (when its database call succeeds) and the stored status
\* is then the one requested; for an id that no leave request has it is
\* answered with an error, and the table is as it was
C22_Original ==
  (reply.op = "UpdateLeaveStatus" /\ ~reply.req.bad) =>
    IF Len(RowsByID(reply.before, reply.req.id)) > 0
      THEN reply.err = Nil =>
             /\ reply.status = StatusOK
             /\ RowsByID(leave, reply.req.id)[1].status = reply.req.status
      ELSE /\ reply.status >= StatusBadRequest
           /\ leave = reply.before

\* C23 as stated: no stored attendance record has both times and a
\* check-out before its check-in; a request with both times and check-out
\* before check-in is answered 400 and the table is as it was; a record
\* stored for a request with both times and check-out not before check-in
\* has TotalHours = check-out - check-in, which is not negative; a record
\* stored for a request that lacks a time has TotalHours = 0
C23_Original ==
  /\ \A i \in 1..Len(attendance.rows) :
       (~IsZero(attendance.rows[i].check_in) /\ ~IsZero(attendance.rows[i].check_out))
         => attendance.rows[i].check_out >= attendance.rows[i].check_in
  /\ (reply.op = "CreateAttendance" /\ ~reply.req.bad) =>
       LET in == reply.req.check_in
           out == reply.req.check_out
           both == in # 0 /\ out # 0
           stored == attendance.rows[Len(attendance.rows)]
       IN /\ (both /\ out < in) =>
               /\ reply.status = StatusBadRequest
               /\ attendance = reply.before
          /\ (both /\ out >= in /\ reply.status = StatusCreated) =>
               /\ stored.total_hours = out - in
               /\ stored.total_hours >= 0
          /\ (~both /\ reply.status = StatusCreated) =>
               stored.total_hours = 0

\* C24: over every step of the bill routes: a DeleteBill answered 204
\* removes exactly the one bill with the path id and touches nothing else; a
\* bill id that was given out and has no bill gets none again, and a GetBill
\* of an id with no bill is answered 404, so every GetBill(id) after a
\* successful DeleteBill(id) is answered 404; an UpdateBill or DeleteBill
\* whose path names no bill is answered with an error status and leaves the
\* table as it was
C24_DeletedBillIsGone ==
  [][LET target == Atoi(reply'.req.path)
         missing == target.err # Nil
                      \/ \A i \in 1..Len(payments.rows) :
                           payments.rows[i].id # target.n
     IN /\ (reply'.op = "DeleteBill" /\ reply'.status = StatusNoContent) =>
             /\ ~missing
             /\ payments'.rows =
                  SelectSeq(payments.rows, LAMBDA row : row.id # target.n)
             /\ Len(payments'.rows) = Len(payments.rows) - 1
             /\ payments'.nextval = payments.nextval
        /\ \A id \in 1..payments.nextval :
             (\A i \in 1..Len(payments.rows) : payments.rows[i].id # id)
               => \A i \in 1..Len(payments'.rows) : payments'.rows[i].id # id
        /\ (reply'.op = "GetBill" /\ target.err = Nil /\ missing) =>
             reply'.status = StatusNotFound
        /\ (reply'.op \in {"UpdateBill", "DeleteBill"} /\ missing) =>
             /\ reply'.status \in {StatusBadRequest, StatusInternalServerError}
             /\ payments' = payments
    ]_vars
\* a DeleteBill answered 204 that removed one of two bills
C24_Witness ==
  /\ reply.op = "DeleteBill"
  /\ reply.status = StatusNoContent
  /\ Len(reply.before.rows) = 2
  /\ Len(payments.rows) = 1

\* C25: after an UpdateBill, the bills whose id is not the path id are as
\* they were before it, whatever id the body carried; when it is answered
\* 200 the bill with the path id carries the body's amount and the path id,
\* and so does the bill in the response
C25_UpdateBillByPathID ==
  reply.op = "UpdateBill" =>
    LET target == Atoi(reply.req.path) IN
      IF target.err # Nil THEN payments = reply.before
      ELSE /\ SelectSeq(payments.rows, LAMBDA row : row.id # target.n)
                = SelectSeq(reply.before.rows, LAMBDA row : row.id # target.n)
           /\ Len(payments.rows) = Len(reply.before.rows)
           /\ payments.nextval = reply.before.nextval
           /\ reply.status = StatusOK =>
                /\ reply.row.id = target.n
                /\ \E i \in 1..Len(payments.rows) :
                     /\ payments.rows[i].id = target.n
                     /\ payments.rows[i].amount = reply.req.body.amount
\* an UpdateBill answered 200 whose body carried the id of another bill, with
\* an amount that bill does not have
C25_Witness ==
  /\ reply.op = "UpdateBill"
  /\ reply.status = StatusOK
  /\ reply.req.body.id # Atoi(reply.req.path).n
  /\ \E i \in 1..Len(reply.before.rows) :
       /\ reply.before.rows[i].id = reply.req.body.id
       /\ reply.before.rows[i].amount # reply.req.body.amount

====
